---- MODULE Spec2Model ----
(***************************************************************************)
(* ICAHT dashboard: the data preparation (utils/data_processor.py), the    *)
(* grading engine (utils/icaht_grader.py) and the request handler that     *)
(* chains them (app.py, process_icaht).                                    *)
(*                                                                         *)
(* Conventions of the model                                                *)
(*   - a calendar date is a day number (an integer >= 0); an ANC value is  *)
(*     a float in the program and a number of half cells per microlitre in *)
(*     the model (an integer >= 0), so that a value can lie between two    *)
(*     whole numbers: Cells(n) is the value n. NaN stands for np.nan / NaT *)
(*     / pd.NA.                                                            *)
(*   - "Grade k" is written k.                                             *)
(*   - a DataFrame grouped by patient is a function from the patient ids   *)
(*     that have rows to the sequence of that patient's rows in day order; *)
(*     a result frame (pd.DataFrame(results)) is the sequence of result    *)
(*     records, and the empty sequence is the frame without columns.       *)
(*   - cart_date, last_fu_date, subsequent_therapy_date, progression_date  *)
(*     are the same on every row of one patient (columns of the upload     *)
(*     that repeat the patient's attributes); load_data drops the rows     *)
(*     without patient_id or cart_date, so cart_date is never NaN.         *)
(*   - the database is the committed state: the status of the job and the  *)
(*     rows of patient_results; a step of a request ends with its commit.  *)
(***************************************************************************)
EXTENDS Integers, Sequences, FiniteSets, TLC

VARIABLES
    pc,              \* position of process_icaht, or the function called on its own
    df,              \* the loaded upload: [rows, info]
    settings,        \* the settings record of the request
    processed_data,  \* result of prepare_data: [ok, early, late]
    early_grades,    \* result of grade_early_icaht
    late_grades,     \* result of grade_late_icaht
    final_grades,    \* result of combine_grades: [ok, rows]
    duration_500,    \* _assign_early_grade: argument
    duration_100,    \* _assign_early_grade: argument
    grade_4_special, \* _assign_early_grade: argument
    grade,           \* _assign_early_grade: return value (NaN before the call)
    exceedances,     \* _join_adjacent_exceedances: argument
    joined,          \* _join_adjacent_exceedances: return value
    data_quality,    \* generate_summary: the two results of _assess_data_quality
    job_status,      \* ProcessingJob.status of the job, as committed
    patient_results, \* the committed PatientResult rows, in insertion order
    upload_dir,      \* the file ids of the files in UPLOAD_FOLDER
    requests,        \* the process_icaht requests: position, inputs, locals
    served           \* the last answer of get_job_results / export_results

\* the database, the upload folder and the requests served from them
job_vars == <<job_status, patient_results, upload_dir, requests, served>>

vars == <<pc, df, settings, processed_data, early_grades, late_grades,
          final_grades, duration_500, duration_100, grade_4_special, grade,
          exceedances, joined, data_quality, job_vars>>

-----------------------------------------------------------------------------
(* Values and helpers                                                      *)

NaN == -1

IsNa(x) == x = NaN

\* the ANC value n, a whole number of cells per microlitre
Cells(n) == 2 * n

Range(s) == {s[i] : i \in DOMAIN s}

SetMin(S) == CHOOSE x \in S : \A y \in S : x <= y

SetMax(S) == CHOOSE x \in S : \A y \in S : x >= y

Min2(a, b) == IF a <= b THEN a ELSE b

RECURSIVE SortedSeq(_)
\* the integers of S in increasing order (sort_values / groupby key order)
SortedSeq(S) ==
    IF S = {} THEN <<>>
    ELSE LET m == SetMin(S) IN <<m>> \o SortedSeq(S \ {m})

\* dict.get(key, default)
Get(d, key, default) == IF key \in DOMAIN d THEN d[key] ELSE default

\* the patient identifiers in sorted order (groupby sorts its keys)
PatientOrder == <<"P1", "P2">>

PatientIds == Range(PatientOrder)

\* the subsequence of PatientOrder of the patients in S
PatientsSorted(S) == SelectSeq(PatientOrder, LAMBDA p : p \in S)

-----------------------------------------------------------------------------
(* utils/data_processor.py                                                 *)

\* (date - cart_date).dt.days of a row whose date is present
time_post_inf(info, r) == r.date - info[r.patient_id].cart_date

\* _prepare_early_data: the filter to the early period (a NaT date gives a
\* NaN offset, which fails both comparisons)
EarlyRows(d, max_days) ==
    {r \in d.rows : /\ ~IsNa(r.date)
                    /\ time_post_inf(d.info, r) >= 0
                    /\ time_post_inf(d.info, r) <= max_days}

\* agg 'anc': 'min' of one (patient, day) group: NaN values are skipped
AncMin(group) ==
    LET present == {r.anc : r \in {x \in group : ~IsNa(x.anc)}}
    IN IF present = {} THEN NaN ELSE SetMin(present)

\* groupby(['patient_id', 'time_post_inf']).agg(...): day -> lowest anc, of one patient
GroupedDays(d, rows, p) ==
    LET mine == {r \in rows : r.patient_id = p}
        days == {time_post_inf(d.info, r) : r \in mine}
    IN [t \in days |-> AncMin({r \in mine : time_post_inf(d.info, r) = t})]

\* _create_complete_timeseries: the follow-up period of one patient
follow_up_days(info, p, max_days) ==
    IF IsNa(info[p].last_fu_date) THEN max_days
    ELSE Min2(max_days, info[p].last_fu_date - info[p].cart_date)

\* CompleteSeries with range(follow_up_days) in place of range(follow_up_days + 1)
CompleteSeries_WithoutLastDay(info, grouped, p, max_days) ==
    LET n == follow_up_days(info, p, max_days)
    IN [i \in 1..(IF n > 0 THEN n ELSE 0) |->
          [time_post_inf |-> i - 1,
           anc |-> IF (i - 1) \in DOMAIN grouped THEN grouped[i - 1] ELSE NaN]]

\* _create_complete_timeseries: the rows of one patient, day 0 .. follow_up_days
CompleteSeries(info, grouped, p, max_days) ==
    LET n == follow_up_days(info, p, max_days) + 1
    IN [i \in 1..(IF n > 0 THEN n ELSE 0) |->
          [time_post_inf |-> i - 1,
           anc |-> IF (i - 1) \in DOMAIN grouped THEN grouped[i - 1] ELSE NaN]]

\* the positions of a column that hold a value
Valid(a) == {i \in DOMAIN a : ~IsNa(a[i])}

\* the nearest position with a value before / after position i (0: there is none)
PrevValid(a, i) ==
    LET before == {j \in Valid(a) : j < i}
    IN IF before = {} THEN 0 ELSE SetMax(before)

NextValid(a, i) ==
    LET after == {j \in Valid(a) : j > i}
    IN IF after = {} THEN 0 ELSE SetMin(after)

\* Series.interpolate(limit=limit, limit_direction='both'), no limit_area: a NaN
\* is preserved only when it lies more than `limit` positions after the previous
\* value (or has none) and more than `limit` positions before the next value
\* (or has none); every other NaN is filled
IsFilled(a, i, limit) ==
    /\ IsNa(a[i])
    /\ \/ PrevValid(a, i) # 0 /\ i - PrevValid(a, i) <= limit
       \/ NextValid(a, i) # 0 /\ NextValid(a, i) - i <= limit

\* Series.round(-1) of the value num / den >= 0: numpy rounds half to even
RoundTens(num, den) ==
    LET unit == Cells(10) * den
        q == num \div unit
        r == num % unit
    IN IF 2 * r < unit THEN Cells(10) * q
       ELSE IF 2 * r > unit THEN Cells(10) * (q + 1)
       ELSE IF q % 2 = 0 THEN Cells(10) * q ELSE Cells(10) * (q + 1)

\* method='linear' (np.interp on the row positions): linear between the two
\* neighbouring values, the edge value outside them; then round(-1)
InterpolatedAt(a, i, limit) ==
    LET lo == PrevValid(a, i)
        hi == NextValid(a, i)
    IN IF ~IsNa(a[i]) THEN RoundTens(a[i], 1)
       ELSE IF ~IsFilled(a, i, limit) THEN NaN
       ELSE IF lo = 0 THEN RoundTens(a[hi], 1)
       ELSE IF hi = 0 THEN RoundTens(a[lo], 1)
       ELSE RoundTens(a[lo] * (hi - lo) + (a[hi] - a[lo]) * (i - lo), hi - lo)

\* _interpolate_anc_values, one patient: anc_interpolated and
\* anc_final = anc.fillna(anc_interpolated)
InterpolateSeries(series, max_gap) ==
    LET a == [i \in DOMAIN series |-> series[i].anc]
    IN [i \in DOMAIN series |->
          [time_post_inf |-> series[i].time_post_inf,
           anc |-> series[i].anc,
           anc_interpolated |-> InterpolatedAt(a, i, max_gap),
           anc_final |-> IF ~IsNa(series[i].anc) THEN series[i].anc
                         ELSE InterpolatedAt(a, i, max_gap)]]

\* an ANC value that pd.to_numeric accepts and astype('Int64') cannot cast:
\* inf, or a magnitude of 2^63 or more
Inf == 1000000

\* _interpolate_anc_values: anc_interpolated.round(-1).astype('Int64') of one
\* patient returns (a value that is present is its own interpolated value)
CastsToInt64(series) == \A i \in DOMAIN series : series[i].anc # Inf

\* _prepare_early_data. The frame _create_complete_timeseries returns has no
\* columns when it has no rows, and _interpolate_anc_values then raises
\* KeyError('patient_id'); it raises TypeError in the loop over the patients
\* when the cast of one patient's column fails: ok = FALSE
_prepare_early_data(d, s) ==
    LET max_days == Get(s, "early_days", 30)
        max_gap == Get(s, "max_gap_days", 7)
        rows == EarlyRows(d, max_days)
        pats == {r.patient_id : r \in rows}
        complete == [p \in pats |->
                       CompleteSeries(d.info, GroupedDays(d, rows, p), p, max_days)]
        nonempty == {p \in pats : Len(complete[p]) > 0}
    IN IF nonempty = {} THEN [ok |-> FALSE, data |-> <<>>]
       ELSE IF \E p \in nonempty : ~CastsToInt64(complete[p])
       THEN [ok |-> FALSE, data |-> <<>>]
       ELSE [ok |-> TRUE,
             data |-> [p \in nonempty |-> InterpolateSeries(complete[p], max_gap)]]

\* _prepare_late_data: end_date = min(axis=1) over cart_date and the three
\* follow-up dates (NaT skipped); the fillna default applies only when all four
\* are NaT
end_date(info, p) ==
    LET dates == {info[p].cart_date, info[p].subsequent_therapy_date,
                  info[p].progression_date, info[p].last_fu_date} \ {NaN}
    IN IF dates = {} THEN info[p].cart_date + 100 ELSE SetMin(dates)

LateRows(d) ==
    {r \in d.rows : /\ ~IsNa(r.date)
                    /\ time_post_inf(d.info, r) >= 31
                    /\ r.date <= end_date(d.info, r.patient_id)}

_prepare_late_data(d, s) ==
    LET rows == LateRows(d)
        pats == {r.patient_id : r \in rows}
    IN [p \in pats |->
          LET g == GroupedDays(d, rows, p)
              days == SortedSeq(DOMAIN g)
          IN [i \in DOMAIN days |-> [time_post_inf |-> days[i], anc |-> g[days[i]]]]]

\* prepare_data
prepare_data(d, s) ==
    LET e == _prepare_early_data(d, s)
    IN IF ~e.ok THEN [ok |-> FALSE, early |-> <<>>, late |-> <<>>]
       ELSE [ok |-> TRUE, early |-> e.data, late |-> _prepare_late_data(d, s)]

-----------------------------------------------------------------------------
(* utils/icaht_grader.py                                                   *)

\* an anc_500_threshold below the anc_100_threshold
anc_500_threshold_BelowThe100 == Cells(51)

\* ICahtGrader.__init__
anc_500_threshold == Cells(501)

\* an anc_100_threshold above the anc_500_threshold
anc_100_threshold_AboveThe500 == Cells(1001)

anc_100_threshold == Cells(101)

recovery_days == 3

\* DropNaFinal that keeps a row without final ANC as a row above every threshold
DropNaFinal_AbsentAsAbove(series) ==
    [i \in DOMAIN series |->
        IF IsNa(series[i].anc_final) THEN [series[i] EXCEPT !.anc_final = Inf]
        ELSE series[i]]

\* patient_data.dropna(subset=['anc_final'])
DropNaFinal(series) == SelectSeq(series, LAMBDA row : ~IsNa(row.anc_final))

RECURSIVE ScanRows_DropsOpen(_, _, _, _, _, _)
\* ScanRows without the closing of an exceedance still open after the last row
ScanRows_DropsOpen(valid_data, i, threshold, in_exceedance, current, found) ==
    IF i > Len(valid_data) THEN found
    ELSE LET condition == valid_data[i].anc_final < threshold
             day == valid_data[i].time_post_inf
         IN IF condition /\ ~in_exceedance
            THEN ScanRows_DropsOpen(valid_data, i + 1, threshold, TRUE,
                          [start_day |-> day, end_day |-> day, duration |-> 1],
                          found)
            ELSE IF condition /\ in_exceedance
            THEN ScanRows_DropsOpen(valid_data, i + 1, threshold, TRUE,
                          [start_day |-> current.start_day, end_day |-> day,
                           duration |-> day - current.start_day + 1],
                          found)
            ELSE IF in_exceedance
            THEN ScanRows_DropsOpen(valid_data, i + 1, threshold, FALSE,
                          current, Append(found, current))
            ELSE ScanRows_DropsOpen(valid_data, i + 1, threshold, FALSE,
                          current, found)

RECURSIVE ScanRows(_, _, _, _, _, _)
\* _calculate_exceedances: the loop over the rows that have a final ANC, from
\* row i on, and the closing of an exceedance still open after the last row
ScanRows(valid_data, i, threshold, in_exceedance, current, found) ==
    IF i > Len(valid_data)
    THEN IF in_exceedance THEN Append(found, current) ELSE found
    ELSE LET condition == valid_data[i].anc_final < threshold
             day == valid_data[i].time_post_inf
         IN IF condition /\ ~in_exceedance
            THEN ScanRows(valid_data, i + 1, threshold, TRUE,
                          [start_day |-> day, end_day |-> day, duration |-> 1],
                          found)
            ELSE IF condition /\ in_exceedance
            THEN ScanRows(valid_data, i + 1, threshold, TRUE,
                          [start_day |-> current.start_day, end_day |-> day,
                           duration |-> day - current.start_day + 1],
                          found)
            ELSE IF in_exceedance
            THEN ScanRows(valid_data, i + 1, threshold, FALSE, current,
                          Append(found, current))
            ELSE ScanRows(valid_data, i + 1, threshold, FALSE, current, found)

\* _calculate_exceedances before the merge pass
RawExceedances(series, threshold) ==
    ScanRows(DropNaFinal(series), 1, threshold, FALSE,
             [start_day |-> 0, end_day |-> 0, duration |-> 0], <<>>)

\* JoinsNext without the "- 1" of the comparison
JoinsNext_WithoutMinusOne(current, next) ==
    next.start_day - current.end_day - 1 <= recovery_days

\* _join_adjacent_exceedances: the test that joins the next exceedance
JoinsNext(current, next) ==
    next.start_day - current.end_day - 1 <= recovery_days - 1

RECURSIVE JoinFrom_StaleEnd(_, _, _, _)
\* JoinFrom that tests the gap against the end day the current exceedance
\* had before it was joined with others
JoinFrom_StaleEnd(exc, i, current, out) ==
    IF i > Len(exc) THEN Append(out, current)
    ELSE IF JoinsNext([current EXCEPT !.end_day =
                          current.start_day + current.duration - 1], exc[i])
         THEN JoinFrom_StaleEnd(exc, i + 1,
                       [start_day |-> current.start_day,
                        end_day |-> exc[i].end_day,
                        duration |-> current.duration],
                       out)
         ELSE JoinFrom_StaleEnd(exc, i + 1, exc[i], Append(out, current))

RECURSIVE JoinFrom(_, _, _, _)
\* _join_adjacent_exceedances: the loop from exceedance i on
JoinFrom(exc, i, current, out) ==
    IF i > Len(exc) THEN Append(out, current)
    ELSE IF JoinsNext(current, exc[i])
         THEN JoinFrom(exc, i + 1,
                       [start_day |-> current.start_day,
                        end_day |-> exc[i].end_day,
                        duration |-> exc[i].end_day - current.start_day + 1],
                       out)
         ELSE JoinFrom(exc, i + 1, exc[i], Append(out, current))

_join_adjacent_exceedances(exc) ==
    IF Len(exc) <= 1 THEN exc ELSE JoinFrom(exc, 2, exc[1], <<>>)

_calculate_exceedances(series, threshold) ==
    IF Len(DropNaFinal(series)) = 0 THEN <<>>
    ELSE _join_adjacent_exceedances(RawExceedances(series, threshold))

\* last_day without the dropna: the last row of the series
last_day_OfAllRows(series) == series[Len(series)].time_post_inf

\* _check_grade_4_special_cases: the last day with ANC data
last_day(series) ==
    LET valid_data == DropNaFinal(series)
    IN valid_data[Len(valid_data)].time_post_inf

_check_grade_4_special_cases(series, exceedances_500) ==
    IF exceedances_500 = <<>> THEN FALSE
    ELSE \E i \in DOMAIN exceedances_500 :
            /\ exceedances_500[i].start_day <= 3
            /\ exceedances_500[i].end_day = last_day(series)

\* _assign_early_grade without the second alternative of the grade 3 band
_assign_early_grade_NoMixedBand(d500, d100, special) ==
    IF special THEN 4
    ELSE IF d500 = 0 /\ d100 = 0 THEN 0
    ELSE IF d500 \in 1..6 /\ d100 < 7 THEN 1
    ELSE IF d500 \in 7..13 /\ d100 < 7 THEN 2
    ELSE IF d500 \in 14..30 /\ d100 < 7 THEN 3
    ELSE IF d500 >= 31 \/ d100 >= 14 THEN 4
    ELSE 0

\* _assign_early_grade with the special case tested after the duration bands
_assign_early_grade_FlagLast(d500, d100, special) ==
    IF d500 = 0 /\ d100 = 0 THEN 0
    ELSE IF d500 \in 1..6 /\ d100 < 7 THEN 1
    ELSE IF d500 \in 7..13 /\ d100 < 7 THEN 2
    ELSE IF \/ d500 \in 14..30 /\ d100 < 7
            \/ d500 < 31 /\ d100 \in 7..13 THEN 3
    ELSE IF d500 >= 31 \/ d100 >= 14 THEN 4
    ELSE IF special THEN 4
    ELSE 0

_assign_early_grade(d500, d100, special) ==
    IF special THEN 4
    ELSE IF d500 = 0 /\ d100 = 0 THEN 0
    ELSE IF d500 \in 1..6 /\ d100 < 7 THEN 1
    ELSE IF d500 \in 7..13 /\ d100 < 7 THEN 2
    ELSE IF \/ d500 \in 14..30 /\ d100 < 7
            \/ d500 < 31 /\ d100 \in 7..13 THEN 3
    ELSE IF d500 >= 31 \/ d100 >= 14 THEN 4
    ELSE 0

\* _assign_early_grade: the branch that returns, "special" for the flag,
\* "band k" for the condition that returns grade k, "else" for the final else
_assign_early_grade_branch(d500, d100, special) ==
    IF special THEN "special"
    ELSE IF d500 = 0 /\ d100 = 0 THEN "band 0"
    ELSE IF d500 \in 1..6 /\ d100 < 7 THEN "band 1"
    ELSE IF d500 \in 7..13 /\ d100 < 7 THEN "band 2"
    ELSE IF \/ d500 \in 14..30 /\ d100 < 7
            \/ d500 < 31 /\ d100 \in 7..13 THEN "band 3"
    ELSE IF d500 >= 31 \/ d100 >= 14 THEN "band 4"
    ELSE "else"

\* MaxDuration with default=1
MaxDuration_DefaultOne(exc) ==
    IF exc = <<>> THEN 1 ELSE SetMax({exc[i].duration : i \in DOMAIN exc})

\* max([e['duration'] for e in exceedances], default=0)
MaxDuration(exc) ==
    IF exc = <<>> THEN 0 ELSE SetMax({exc[i].duration : i \in DOMAIN exc})

\* grade_early_icaht: the result of one patient
EarlyResult(p, series) ==
    LET exceedances_500 == _calculate_exceedances(series, anc_500_threshold)
        exceedances_100 == _calculate_exceedances(series, anc_100_threshold)
        max_duration_500 == MaxDuration(exceedances_500)
        max_duration_100 == MaxDuration(exceedances_100)
        special == _check_grade_4_special_cases(series, exceedances_500)
    IN [patient_id |-> p,
        duration_below_500_max |-> max_duration_500,
        duration_below_100_max |-> max_duration_100,
        early_icaht_grade |->
            _assign_early_grade(max_duration_500, max_duration_100, special),
        grade_4_special |-> special,
        exceedances_500 |-> Len(exceedances_500),
        exceedances_100 |-> Len(exceedances_100)]

grade_early_icaht(df_early) ==
    LET ids == PatientsSorted(DOMAIN df_early)
    IN [i \in DOMAIN ids |-> EarlyResult(ids[i], df_early[ids[i]])]

RECURSIVE InsertSorted(_, _)
InsertSorted(x, sorted) ==
    IF sorted = <<>> THEN <<x>>
    ELSE IF x <= Head(sorted) THEN <<x>> \o sorted
    ELSE <<Head(sorted)>> \o InsertSorted(x, Tail(sorted))

RECURSIVE SortValues(_)
\* Series.sort_values(): equal values are all kept
SortValues(values) ==
    IF values = <<>> THEN <<>>
    ELSE InsertSorted(Head(values), SortValues(Tail(values)))

\* AncValuesSorted without sort_values()
AncValuesSorted_Unsorted(rows) ==
    LET present == SelectSeq(rows, LAMBDA row : ~IsNa(row.anc))
    IN [i \in DOMAIN present |-> present[i].anc]

\* patient_data['anc'].dropna().sort_values()
AncValuesSorted(rows) ==
    LET present == SelectSeq(rows, LAMBDA row : ~IsNa(row.anc))
    IN SortValues([i \in DOMAIN present |-> present[i].anc])

\* x in range(lo, hi) for a float x: true of the whole numbers lo .. hi - 1
InRange(x, lo, hi) == x % Cells(1) = 0 /\ x \div Cells(1) \in lo..(hi - 1)

_assign_late_grade(anc_1, anc_2) ==
    IF IsNa(anc_1) THEN 0
    ELSE IF \/ InRange(anc_1, 1001, 1501) /\ (IsNa(anc_2) \/ anc_2 <= Cells(1500))
            \/ InRange(anc_1, 1001, 1501) /\ IsNa(anc_2) THEN 1
    ELSE IF \/ InRange(anc_1, 501, 1001) /\ (IsNa(anc_2) \/ anc_2 <= Cells(1500))
            \/ InRange(anc_1, 501, 1001) /\ IsNa(anc_2) THEN 2
    ELSE IF \/ InRange(anc_1, 101, 501) /\ (IsNa(anc_2) \/ anc_2 <= Cells(1500))
            \/ InRange(anc_1, 101, 501) /\ IsNa(anc_2) THEN 3
    ELSE IF anc_1 <= Cells(100) THEN 4
    ELSE 0

\* grade_late_icaht: the result of one patient of the late frame (a patient
\* of the frame has at least one row, so the len(patient_data) == 0 branch
\* is never taken)
LateResult(p, rows) ==
    LET anc_values == AncValuesSorted(rows)
        anc_1 == IF Len(anc_values) > 0 THEN anc_values[1] ELSE NaN
        anc_2 == IF Len(anc_values) > 1 THEN anc_values[2] ELSE NaN
    IN [patient_id |-> p,
        anc_1 |-> anc_1,
        anc_2 |-> anc_2,
        late_icaht_grade |-> _assign_late_grade(anc_1, anc_2),
        anc_count |-> Len(anc_values)]

grade_late_icaht(df_late) ==
    LET ids == PatientsSorted(DOMAIN df_late)
    IN [i \in DOMAIN ids |-> LateResult(ids[i], df_late[ids[i]])]

\* frame[frame['patient_id'] == patient_id]
RowsOf(frame, p) == SelectSeq(frame, LAMBDA row : row.patient_id = p)

\* combine_grades: the early fields of one patient
EarlyFields(early, p) ==
    LET early_data == RowsOf(early, p)
    IN IF Len(early_data) > 0
       THEN [early_icaht_grade |-> early_data[1].early_icaht_grade,
             duration_below_500_max |-> early_data[1].duration_below_500_max,
             duration_below_100_max |-> early_data[1].duration_below_100_max,
             grade_4_special |-> early_data[1].grade_4_special]
       ELSE [early_icaht_grade |-> 0,
             duration_below_500_max |-> 0,
             duration_below_100_max |-> 0,
             grade_4_special |-> FALSE]

\* combine_grades: the late fields of one patient
LateFields(late, p) ==
    LET late_data == RowsOf(late, p)
    IN IF Len(late_data) > 0
       THEN [late_icaht_grade |-> late_data[1].late_icaht_grade,
             anc_1 |-> late_data[1].anc_1,
             anc_2 |-> late_data[1].anc_2,
             anc_count |-> late_data[1].anc_count]
       ELSE [late_icaht_grade |-> 0, anc_1 |-> NaN, anc_2 |-> NaN,
             anc_count |-> 0]

\* combine_grades: set(early ids + late ids)
all_patients(early, late) ==
    {early[i].patient_id : i \in DOMAIN early}
        \cup {late[i].patient_id : i \in DOMAIN late}

\* the orders in which `for patient_id in all_patients` can visit a set of str
\* (the hash of a str differs from one interpreter run to the next)
IterationOrders(S) ==
    {o \in [1..Cardinality(S) -> S] : \A i, j \in DOMAIN o : o[i] = o[j] => i = j}

\* combine_grades, visiting all_patients in `order`. A result frame built from
\* an empty list has no columns, and frame['patient_id'] raises KeyError:
\* ok = FALSE
combine_grades(early, late, order) ==
    IF early = <<>> \/ late = <<>> THEN [ok |-> FALSE, rows |-> <<>>]
    ELSE [ok |-> TRUE,
          rows |-> [i \in DOMAIN order |->
                      LET e == EarlyFields(early, order[i])
                          l == LateFields(late, order[i])
                      IN [patient_id |-> order[i],
                          early_icaht_grade |-> e.early_icaht_grade,
                          duration_below_500_max |-> e.duration_below_500_max,
                          duration_below_100_max |-> e.duration_below_100_max,
                          grade_4_special |-> e.grade_4_special,
                          late_icaht_grade |-> l.late_icaht_grade,
                          anc_1 |-> l.anc_1,
                          anc_2 |-> l.anc_2,
                          anc_count |-> l.anc_count]]]

\* the length of the longest series of a frame grouped by patient
MaxSeriesLen(frame) ==
    IF DOMAIN frame = {} THEN 0 ELSE SetMax({Len(frame[p]) : p \in DOMAIN frame})

\* the frame has the column `col`
HasColumn(frame, col) ==
    \A p \in DOMAIN frame : \A i \in DOMAIN frame[p] : col \in DOMAIN frame[p][i]

\* round(num / den) of a value >= 0, half to even (Python's round)
RoundHalfEven(num, den) ==
    LET q == num \div den
        r == num % den
    IN IF 2 * r < den THEN q
       ELSE IF 2 * r > den THEN q + 1
       ELSE IF q % 2 = 0 THEN q ELSE q + 1

\* len(df) of a frame grouped by patient
RowCount(frame) ==
    Cardinality({<<p, i>> \in (DOMAIN frame) \X (1..MaxSeriesLen(frame)) :
                    i \in DOMAIN frame[p]})

\* df['anc_final'].isna().sum()
NaFinalCount(frame) ==
    Cardinality({<<p, i>> \in (DOMAIN frame) \X (1..MaxSeriesLen(frame)) :
                    i \in DOMAIN frame[p] /\ IsNa(frame[p][i].anc_final)})

\* _assess_data_quality; interpolation_rate in hundredths of a percent
\* (round(rate * 100, 2) has two decimals). A non-empty frame without the
\* column anc_final raises KeyError: ok = FALSE
_assess_data_quality(frame) ==
    IF DOMAIN frame = {}
    THEN [ok |-> TRUE, patients_with_data |-> 0, interpolation_rate |-> 0]
    ELSE IF ~HasColumn(frame, "anc_final")
    THEN [ok |-> FALSE, patients_with_data |-> 0, interpolation_rate |-> 0]
    ELSE [ok |-> TRUE,
          patients_with_data |-> Cardinality(DOMAIN frame),
          interpolation_rate |->
              RoundHalfEven(100 * 100 * NaFinalCount(frame), RowCount(frame))]

-----------------------------------------------------------------------------
(* app.py, process_icaht: the grading steps of one request                 *)

\* processed_data = data_processor.prepare_data(df, settings); an exception
\* ends the request in the handler's except branch
PrepareData ==
    /\ pc = "prepare_data"
    /\ processed_data' = prepare_data(df, settings)
    /\ pc' = IF processed_data'.ok THEN "grade_early_icaht" ELSE "failed"
    /\ UNCHANGED <<df, settings, early_grades, late_grades, final_grades,
                   duration_500, duration_100, grade_4_special, grade,
                   exceedances, joined, data_quality, job_vars>>

\* early_grades = icaht_grader.grade_early_icaht(processed_data['early'])
GradeEarly ==
    /\ pc = "grade_early_icaht"
    /\ early_grades' = grade_early_icaht(processed_data.early)
    /\ pc' = "grade_late_icaht"
    /\ UNCHANGED <<df, settings, processed_data, late_grades, final_grades,
                   duration_500, duration_100, grade_4_special, grade,
                   exceedances, joined, data_quality, job_vars>>

\* late_grades = icaht_grader.grade_late_icaht(processed_data['late'])
GradeLate ==
    /\ pc = "grade_late_icaht"
    /\ late_grades' = grade_late_icaht(processed_data.late)
    /\ pc' = "combine_grades"
    /\ UNCHANGED <<df, settings, processed_data, early_grades, final_grades,
                   duration_500, duration_100, grade_4_special, grade,
                   exceedances, joined, data_quality, job_vars>>

\* final_grades = icaht_grader.combine_grades(early_grades, late_grades)
CombineGrades ==
    /\ pc = "combine_grades"
    /\ \E order \in IterationOrders(all_patients(early_grades, late_grades)) :
          final_grades' = combine_grades(early_grades, late_grades, order)
    /\ pc' = IF final_grades'.ok THEN "combined" ELSE "failed"
    /\ UNCHANGED <<df, settings, processed_data, early_grades, late_grades,
                   duration_500, duration_100, grade_4_special, grade,
                   exceedances, joined, data_quality, job_vars>>

\* a call of _assign_early_grade on its own
AssignEarlyGrade ==
    /\ pc = "_assign_early_grade"
    /\ grade' = _assign_early_grade(duration_500, duration_100, grade_4_special)
    /\ pc' = "returned"
    /\ UNCHANGED <<df, settings, processed_data, early_grades, late_grades,
                   final_grades, duration_500, duration_100, grade_4_special,
                   exceedances, joined, data_quality, job_vars>>

\* a call of _join_adjacent_exceedances on its own
JoinAdjacentExceedances ==
    /\ pc = "_join_adjacent_exceedances"
    /\ joined' = _join_adjacent_exceedances(exceedances)
    /\ pc' = "returned"
    /\ UNCHANGED <<df, settings, processed_data, early_grades, late_grades,
                   final_grades, duration_500, duration_100, grade_4_special,
                   grade, exceedances, data_quality, job_vars>>

\* generate_summary: early_data_quality and late_data_quality, called on
\* their own; an exception of either call leaves no summary
AssessDataQuality ==
    /\ pc = "_assess_data_quality"
    /\ LET early == _assess_data_quality(processed_data.early)
           late == _assess_data_quality(processed_data.late)
       IN /\ data_quality' = IF early.ok /\ late.ok
                             THEN [ok |-> TRUE, early |-> early, late |-> late]
                             ELSE [ok |-> FALSE, early |-> <<>>, late |-> <<>>]
          /\ pc' = IF early.ok /\ late.ok THEN "returned" ELSE "failed"
    /\ UNCHANGED <<df, settings, processed_data, early_grades, late_grades,
                   final_grades, duration_500, duration_100, grade_4_special,
                   grade, exceedances, joined, job_vars>>

-----------------------------------------------------------------------------
(* app.py: process_icaht, get_job_results and export_results on the rows of *)
(* processing_jobs and patient_results. Every request has a database        *)
(* session of its own; a commit writes what the request has added and set.  *)
(* processed_data is what load_data and prepare_data return for the         *)
(* uploaded file, the same for every request that reads the file.           *)

\* the rows of processing_jobs: the job that upload_file created
Jobs == {1}

\* PatientResult(job_id=job.id, patient_id=row['patient_id'], ...)
PatientResultOf(job_id, row) ==
    [job_id |-> job_id,
     patient_id |-> row.patient_id,
     early_icaht_grade |-> row.early_icaht_grade,
     duration_below_500_max |-> row.duration_below_500_max,
     duration_below_100_max |-> row.duration_below_100_max,
     grade_4_special |-> row.grade_4_special,
     late_icaht_grade |-> row.late_icaht_grade,
     anc_1 |-> row.anc_1,
     anc_2 |-> row.anc_2,
     anc_count |-> row.anc_count]

\* PatientResult.query.filter_by(job_id=job_id).all()
ResultsOfJob(job_id) ==
    SelectSeq(patient_results, LAMBDA row : row.job_id = job_id)

\* the answer of a request and its new position
Answer(r, code) == [requests EXCEPT ![r].at = "done", ![r].response = code]

\* process_icaht up to the first commit: the job and the file are looked up
\* (400 without a job id is not modelled: every request names one), then
\* job.status = 'processing' is committed
StartProcessing(r) ==
    /\ pc = "process_icaht"
    /\ requests[r].at = "start"
    /\ IF requests[r].job_id \notin Jobs \/ requests[r].file_id \notin upload_dir
       THEN /\ requests' = Answer(r, 404)
            /\ UNCHANGED job_status
       ELSE /\ job_status' = "processing"
            /\ requests' = [requests EXCEPT ![r].at = "load_data"]
    /\ UNCHANGED <<pc, df, settings, processed_data, early_grades, late_grades,
                   final_grades, duration_500, duration_100, grade_4_special,
                   grade, exceedances, joined, data_quality, patient_results,
                   upload_dir, served>>

\* process_icaht, load_data to combine_grades: an exception of any of the
\* calls (a file that is gone, prepare_data, combine_grades) leads to the
\* except branch
GradeRequest(r) ==
    /\ pc = "process_icaht"
    /\ requests[r].at = "load_data"
    /\ IF requests[r].file_id \notin upload_dir \/ ~processed_data.ok
       THEN requests' = [requests EXCEPT ![r].at = "except"]
       ELSE LET early == grade_early_icaht(processed_data.early)
                late == grade_late_icaht(processed_data.late)
            IN \E order \in IterationOrders(all_patients(early, late)) :
                  LET combined == combine_grades(early, late, order)
                  IN requests' =
                        [requests EXCEPT
                            ![r].at = IF combined.ok THEN "store" ELSE "except",
                            ![r].final_grades = combined.rows]
    /\ UNCHANGED <<pc, df, settings, processed_data, early_grades, late_grades,
                   final_grades, duration_500, duration_100, grade_4_special,
                   grade, exceedances, joined, data_quality, job_status,
                   patient_results, upload_dir, served>>

\* process_icaht: a PatientResult is added for every row of final_grades,
\* job.status = 'completed' is set, and both are committed
StoreResults(r) ==
    /\ pc = "process_icaht"
    /\ requests[r].at = "store"
    /\ patient_results' =
          patient_results \o
             [i \in DOMAIN requests[r].final_grades |->
                 PatientResultOf(requests[r].job_id, requests[r].final_grades[i])]
    /\ job_status' = "completed"
    /\ requests' = [requests EXCEPT ![r].at = "generate_summary"]
    /\ UNCHANGED <<pc, df, settings, processed_data, early_grades, late_grades,
                   final_grades, duration_500, duration_100, grade_4_special,
                   grade, exceedances, joined, data_quality, upload_dir, served>>

\* process_icaht after the commit of the results: generate_summary, the
\* audit record, os.remove(filepath) and the answer; an exception of
\* generate_summary or of os.remove leads to the except branch
FinishRequest(r) ==
    /\ pc = "process_icaht"
    /\ requests[r].at = "generate_summary"
    /\ LET early == _assess_data_quality(processed_data.early)
           late == _assess_data_quality(processed_data.late)
       IN IF early.ok /\ late.ok /\ requests[r].file_id \in upload_dir
          THEN /\ upload_dir' = upload_dir \ {requests[r].file_id}
               /\ requests' = Answer(r, 200)
          ELSE /\ requests' = [requests EXCEPT ![r].at = "except"]
               /\ UNCHANGED upload_dir
    /\ UNCHANGED <<pc, df, settings, processed_data, early_grades, late_grades,
                   final_grades, duration_500, duration_100, grade_4_special,
                   grade, exceedances, joined, data_quality, job_status,
                   patient_results, served>>

\* process_icaht, except branch: job.status = 'failed' is committed and the
\* request is answered with 500
HandleException(r) ==
    /\ pc = "process_icaht"
    /\ requests[r].at = "except"
    /\ job_status' = "failed"
    /\ requests' = Answer(r, 500)
    /\ UNCHANGED <<pc, df, settings, processed_data, early_grades, late_grades,
                   final_grades, duration_500, duration_100, grade_4_special,
                   grade, exceedances, joined, data_quality, patient_results,
                   upload_dir, served>>

\* get_job_results for the job: 400 unless the job is completed
GetJobResults ==
    /\ pc = "process_icaht"
    /\ \E job_id \in Jobs :
          served' = [handler |-> "get_job_results", status |-> job_status,
                     results |-> IF job_status # "completed" THEN <<>>
                                 ELSE ResultsOfJob(job_id)]
    /\ UNCHANGED <<pc, df, settings, processed_data, early_grades, late_grades,
                   final_grades, duration_500, duration_100, grade_4_special,
                   grade, exceedances, joined, data_quality, job_status,
                   patient_results, upload_dir, requests>>

\* export_results for the job: the stored rows, 400 when there is none
ExportResults ==
    /\ pc = "process_icaht"
    /\ \E job_id \in Jobs :
          served' = [handler |-> "export_results", status |-> job_status,
                     results |-> ResultsOfJob(job_id)]
    /\ UNCHANGED <<pc, df, settings, processed_data, early_grades, late_grades,
                   final_grades, duration_500, duration_100, grade_4_special,
                   grade, exceedances, joined, data_quality, job_status,
                   patient_results, upload_dir, requests>>

-----------------------------------------------------------------------------
(* Inputs                                                                  *)

\* bounds of the enumerated inputs
MaxEarlyDays == 4

MaxGap == 2

MaxDur == 33

MaxDay == 10

\* the infusion date of the enumerated uploads
CartDates == {100}

\* ANC values: one <= 100, one in (100, 500], one above 500
AncChoices == {Cells(90), Cells(400), Cells(800)}

\* last_fu_date - cart_date of the enumerated uploads: before the infusion,
\* inside the early window, beyond it
FollowUpOffsets == {-1, 2, 60}

\* the last_fu_date values of the enumerated uploads
LastFuDates(cart) == {NaN} \cup {cart + o : o \in FollowUpOffsets}

NoInfo(cart) ==
    [cart_date |-> cart, last_fu_date |-> NaN,
     subsequent_therapy_date |-> NaN, progression_date |-> NaN]

\* the rows of patient p: one observation on each day offset of DOMAIN f
UploadOf(p, cart, f) ==
    {[patient_id |-> p, date |-> cart + t, anc |-> f[t]] : t \in DOMAIN f}

\* no job, no file and no request
NoRequest ==
    /\ job_status = NaN
    /\ patient_results = <<>>
    /\ upload_dir = {}
    /\ requests = <<>>
    /\ served = <<>>

\* the variables of the calls made on their own, when unused
NoCall ==
    /\ duration_500 = 0
    /\ duration_100 = 0
    /\ grade_4_special = FALSE
    /\ grade = NaN
    /\ exceedances = <<>>
    /\ joined = <<>>
    /\ data_quality = <<>>
    /\ NoRequest

NoResults ==
    /\ processed_data = [ok |-> FALSE, early |-> <<>>, late |-> <<>>]
    /\ early_grades = <<>>
    /\ late_grades = <<>>
    /\ final_grades = [ok |-> FALSE, rows |-> <<>>]

-----------------------------------------------------------------------------
(* _assign_early_grade on every pair of durations up to MaxDur             *)

InitEarlyGrade ==
    /\ pc = "_assign_early_grade"
    /\ duration_500 \in 0..MaxDur
    /\ duration_100 \in 0..MaxDur
    /\ grade_4_special \in BOOLEAN
    /\ grade = NaN
    /\ exceedances = <<>>
    /\ joined = <<>>
    /\ data_quality = <<>>
    /\ NoRequest
    /\ df = [rows |-> {}, info |-> <<>>]
    /\ settings = <<>>
    /\ NoResults

SpecEarlyGrade == InitEarlyGrade /\ [][AssignEarlyGrade]_vars

\* the upload of the grade-4 special case of the specification: 800 on day 0,
\* then 400 on every day from day 2 to day 30, default settings
SpecialCaseUpload(cart) ==
    [rows |-> UploadOf("P1", cart,
                       [t \in {0} \cup (2..30) |-> IF t = 0 THEN Cells(800) ELSE Cells(400)]),
     info |-> [p \in {"P1"} |-> NoInfo(cart)]]

SpecialCaseResult ==
    LET cart == CHOOSE c \in CartDates : TRUE
        prepared == prepare_data(SpecialCaseUpload(cart), <<>>)
    IN grade_early_icaht(prepared.early)[1]

\* C1: _assign_early_grade returns 4 when the special-case flag is set, and
\* otherwise the grade of the band of the rule table that (dur500, dur100)
\* lies in (the pairs with dur500 = 0 and dur100 in [1,6] lie in no band and
\* get the fallback 0); the exceedance from day 2 through day 30, the last
\* observed day, is graded 4 although its duration of 29 is in the band of
\* grade 3.
C1_EarlyGradeRuleTable ==
    pc = "returned" /\ grade # NaN =>
        LET d5 == duration_500
            d1 == duration_100
        IN /\ grade_4_special => grade = 4
           /\ ~grade_4_special =>
                /\ (d5 = 0 /\ d1 = 0) => grade = 0
                /\ (1 <= d5 /\ d5 <= 6 /\ d1 < 7) => grade = 1
                /\ (7 <= d5 /\ d5 <= 13 /\ d1 < 7) => grade = 2
                /\ (\/ 14 <= d5 /\ d5 <= 30 /\ d1 < 7
                    \/ d5 < 31 /\ 7 <= d1 /\ d1 <= 13) => grade = 3
                /\ (d5 >= 31 \/ d1 >= 14) => grade = 4
                /\ (d5 = 0 /\ 1 <= d1 /\ d1 <= 6) => grade = 0
           /\ SpecialCaseResult.duration_below_500_max = 29
           /\ SpecialCaseResult.duration_below_100_max = 0
           /\ SpecialCaseResult.grade_4_special
           /\ SpecialCaseResult.early_icaht_grade = 4
           /\ (d5 = 29 /\ d1 = 0 /\ ~grade_4_special) => grade = 3

\* C1 witness: the durations of the special case, graded with the flag set
C1_Witness ==
    /\ pc = "returned"
    /\ duration_500 = 29
    /\ duration_100 = 0
    /\ grade_4_special
    /\ grade = 4

-----------------------------------------------------------------------------
(* _join_adjacent_exceedances on every list of raw exceedances that        *)
(* _calculate_exceedances can build on days 0 .. MaxDay: in day order, and  *)
(* with at least one day above the threshold between two of them            *)

\* the maximal runs of consecutive days of S, in day order
RunsOf(S) ==
    LET starts == SortedSeq({d \in S : (d - 1) \notin S})
        end(s) == SetMax({e \in S : \A d \in s..e : d \in S})
    IN [i \in DOMAIN starts |->
          [start_day |-> starts[i], end_day |-> end(starts[i]),
           duration |-> end(starts[i]) - starts[i] + 1]]

RawLists == {RunsOf(S) : S \in SUBSET (0..MaxDay)}

InitMerge ==
    /\ pc = "_join_adjacent_exceedances"
    /\ exceedances \in RawLists
    /\ joined = <<>>
    /\ data_quality = <<>>
    /\ NoRequest
    /\ duration_500 = 0
    /\ duration_100 = 0
    /\ grade_4_special = FALSE
    /\ grade = NaN
    /\ df = [rows |-> {}, info |-> <<>>]
    /\ settings = <<>>
    /\ NoResults

SpecMerge == InitMerge /\ [][JoinAdjacentExceedances]_vars

\* the number of good days between raw exceedance i and the next one
GapAfter(i) == exceedances[i + 1].start_day - exceedances[i].end_day - 1

\* the raw exceedances that are not joined to their predecessor
GroupStarts ==
    {i \in DOMAIN exceedances : i = 1 \/ ~(GapAfter(i - 1) < 3)}

\* C3: raw exceedance i is joined with i+1 exactly when the gap between them
\* is strictly below 3; a joined exceedance has the start day of its first
\* member, the end day of its last member and duration end - start + 1.
\* [0,4] and [7,9] become [0,9] of duration 10; [0,4] and [8,10] stay two.
C3_MergeJoinsShortGaps ==
    pc = "returned" =>
        LET starts == SortedSeq(GroupStarts)
            last(k) == IF k < Len(starts) THEN starts[k + 1] - 1
                       ELSE Len(exceedances)
        IN /\ Len(joined) = Len(starts)
           /\ \A k \in DOMAIN joined :
                 /\ joined[k].start_day = exceedances[starts[k]].start_day
                 /\ joined[k].end_day = exceedances[last(k)].end_day
                 /\ joined[k].duration =
                        joined[k].end_day - joined[k].start_day + 1
           /\ exceedances = <<[start_day |-> 0, end_day |-> 4, duration |-> 5],
                              [start_day |-> 8, end_day |-> 10, duration |-> 3]>>
                 => joined = exceedances

\* C3 witness: the merge boundary of the specification
C3_Witness ==
    /\ pc = "returned"
    /\ exceedances = <<[start_day |-> 0, end_day |-> 4, duration |-> 5],
                       [start_day |-> 7, end_day |-> 9, duration |-> 3]>>
    /\ joined = <<[start_day |-> 0, end_day |-> 9, duration |-> 10]>>

-----------------------------------------------------------------------------
(* prepare_data and grade_early_icaht on the uploads of one patient: every   *)
(* choice of observed days in 0 .. MaxEarlyDays with every choice of ANC     *)
(* values, every max_gap_days in 1 .. MaxGap and every follow-up of          *)
(* FollowUpOffsets; and the uploads of the specification's examples under    *)
(* the default settings                                                      *)

\* known values 400 and 600 with `absent` days without observation between them
GapUpload(cart, first, absent) ==
    [rows |-> UploadOf("P1", cart,
                       [t \in {first, first + absent + 1} |->
                            IF t = first THEN Cells(400) ELSE Cells(600)]),
     info |-> [p \in {"P1"} |-> NoInfo(cart)]]

ExampleUploads(cart) ==
    {SpecialCaseUpload(cart), GapUpload(cart, 10, 4), GapUpload(cart, 10, 10)}

InitEarly ==
    /\ pc = "prepare_data"
    /\ \E cart \in CartDates :
          \/ /\ \E S \in (SUBSET (0..MaxEarlyDays)) \ {{}} :
                  \E f \in [S -> AncChoices], fu \in LastFuDates(cart) :
                      df = [rows |-> UploadOf("P1", cart, f),
                            info |-> [p \in {"P1"} |->
                                        [NoInfo(cart) EXCEPT !.last_fu_date = fu]]]
             /\ \E gap \in 1..MaxGap :
                  settings = [early_days |-> MaxEarlyDays, max_gap_days |-> gap]
          \/ /\ df \in ExampleUploads(cart)
             /\ settings = <<>>
    /\ NoResults
    /\ NoCall

NextEarly == PrepareData \/ GradeEarly

SpecEarly == InitEarly /\ [][NextEarly]_vars

\* the request has passed prepare_data without an exception
Prepared == pc \in {"grade_early_icaht", "grade_late_icaht", "combine_grades",
                    "combined"} /\ processed_data.ok

\* the settings in force
EarlyDaysSetting == IF "early_days" \in DOMAIN settings THEN settings.early_days ELSE 30

MaxGapSetting == IF "max_gap_days" \in DOMAIN settings THEN settings.max_gap_days ELSE 7

\* the day offsets in [0, early_days] on which the upload has a row of patient p
ObservedEarlyDays(p) ==
    {r.date - df.info[p].cart_date :
        r \in {x \in df.rows : /\ x.patient_id = p
                               /\ ~IsNa(x.date)
                               /\ x.date - df.info[p].cart_date >= 0
                               /\ x.date - df.info[p].cart_date <= EarlyDaysSetting}}

\* the horizon of patient p as the specification defines it
Horizon(p) ==
    IF IsNa(df.info[p].last_fu_date) THEN EarlyDaysSetting
    ELSE IF df.info[p].last_fu_date - df.info[p].cart_date < EarlyDaysSetting
         THEN df.info[p].last_fu_date - df.info[p].cart_date
         ELSE EarlyDaysSetting

\* the built early series of patient p (empty when p has no row in the frame)
EarlySeriesOf(p) ==
    IF p \in DOMAIN processed_data.early THEN processed_data.early[p] ELSE <<>>

\* C7: the early series of a patient with an observation in the early window
\* has exactly one TimePoint for each day offset 0 .. horizon and none outside,
\* horizon = min(early_days, last_fu_date - cart_date), or early_days when
\* last_fu_date is absent; a day without observation is a row with absent ANC;
\* no other patient has rows.
C7_EarlySeriesCoversHorizon ==
    Prepared =>
        /\ \A p \in DOMAIN processed_data.early : ObservedEarlyDays(p) # {}
        /\ \A p \in PatientIds :
              ObservedEarlyDays(p) # {} =>
                 LET series == EarlySeriesOf(p)
                 IN /\ {series[i].time_post_inf : i \in DOMAIN series}
                          = 0..Horizon(p)
                    /\ \A i, j \in DOMAIN series :
                          series[i].time_post_inf = series[j].time_post_inf
                             => i = j
                    /\ \A i \in DOMAIN series :
                          series[i].time_post_inf \notin ObservedEarlyDays(p)
                             => IsNa(series[i].anc)

\* C7 witness: a horizon cut by the last follow-up date, below early_days,
\* with a day without observation inside it
C7_Witness ==
    /\ Prepared
    /\ \E p \in DOMAIN processed_data.early :
          /\ ~IsNa(df.info[p].last_fu_date)
          /\ Len(processed_data.early[p]) = Horizon(p) + 1
          /\ Horizon(p) < EarlyDaysSetting
          /\ \E i \in DOMAIN processed_data.early[p] :
                IsNa(processed_data.early[p][i].anc)

\* the 500-threshold exceedances of a series after the merge pass
Merged500(series) == _calculate_exceedances(series, anc_500_threshold)

\* the days of a series that have a final ANC
DaysWithFinalAnc(series) ==
    {series[i].time_post_inf : i \in {j \in DOMAIN series : ~IsNa(series[j].anc_final)}}

Graded == pc \in {"grade_late_icaht", "combine_grades", "combined"}
            /\ processed_data.ok

\* C4: the grade-4-special flag of a patient is true exactly when some merged
\* 500-threshold exceedance starts on or before day 3 and ends on the
\* patient's last day with a final ANC; without such an exceedance it is false.
C4_SpecialCaseFlag ==
    Graded =>
        \A k \in DOMAIN early_grades :
           LET series == processed_data.early[early_grades[k].patient_id]
               merged == Merged500(series)
           IN early_grades[k].grade_4_special
                 <=> \E i \in DOMAIN merged :
                        /\ merged[i].start_day <= 3
                        /\ \A d \in DaysWithFinalAnc(series) : d <= merged[i].end_day
                        /\ merged[i].end_day \in DaysWithFinalAnc(series)

\* C4 witness: the flag is set for an exceedance that ends on the last day
\* with a final ANC, and that day is not the last day of the series
C4_Witness ==
    /\ Graded
    /\ \E k \in DOMAIN early_grades :
          LET series == processed_data.early[early_grades[k].patient_id]
          IN /\ early_grades[k].grade_4_special
             /\ IsNa(series[Len(series)].anc_final)

\* the positions of a series with a raw ANC value
RawKnown(series) == {i \in DOMAIN series : ~IsNa(series[i].anc)}

\* positions lo < hi with raw values and none between them: the run of absent
\* days lo+1 .. hi-1 lies between two known values
IsInnerGap(series, lo, hi) ==
    /\ lo \in RawKnown(series)
    /\ hi \in RawKnown(series)
    /\ lo + 1 < hi
    /\ \A i \in (lo + 1)..(hi - 1) : i \notin RawKnown(series)

\* C5: a run of absent days between two known values that is longer than
\* max_gap_days keeps an absent final ANC on every one of its days, and a run
\* of at most max_gap_days days is filled on every day.
C5_LongGapStaysAbsent ==
    Prepared =>
        \A p \in DOMAIN processed_data.early :
           LET series == processed_data.early[p]
           IN \A lo, hi \in DOMAIN series :
                 IsInnerGap(series, lo, hi) =>
                    \A i \in (lo + 1)..(hi - 1) :
                       IsNa(series[i].anc_final) <=> (hi - lo - 1 > MaxGapSetting)

\* C6: every day before the first day with a raw ANC value and every day after
\* the last one has an absent interpolated value and an absent final ANC.
C6_NoExtrapolation ==
    Prepared =>
        \A p \in DOMAIN processed_data.early :
           LET series == processed_data.early[p]
           IN \A i \in DOMAIN series :
                 (\/ \A k \in RawKnown(series) : i < k
                  \/ \A k \in RawKnown(series) : i > k)
                    => /\ IsNa(series[i].anc_interpolated)
                       /\ IsNa(series[i].anc_final)

-----------------------------------------------------------------------------
(* grade_late_icaht on the late frames of one patient with up to            *)
(* MaxLateRows observed days, every choice of ANC values around the band     *)
(* limits                                                                    *)

MaxLateRows == 3

LateAncChoices ==
    {NaN} \cup {Cells(n) : n \in {90, 100, 101, 500, 501, 1000, 1001, 1200,
                                  1500, 1501, 1600, 1800}}

\* a late frame of patient p: one row on each of the days 31, 32, ...
LateFrameOf(p, values) ==
    [q \in {p} |->
        [i \in DOMAIN values |-> [time_post_inf |-> 30 + i, anc |-> values[i]]]]

InitLate ==
    /\ pc = "grade_late_icaht"
    /\ \E n \in 1..MaxLateRows :
          \E values \in [1..n -> LateAncChoices] :
              processed_data = [ok |-> TRUE, early |-> <<>>,
                                late |-> LateFrameOf("P1", values)]
    /\ df = [rows |-> {}, info |-> <<>>]
    /\ settings = <<>>
    /\ early_grades = <<>>
    /\ late_grades = <<>>
    /\ final_grades = [ok |-> FALSE, rows |-> <<>>]
    /\ NoCall

SpecLate == InitLate /\ [][GradeLate]_vars

\* the grade of the band of anc_1 in the table of the specification
LateBandGrade(anc) ==
    IF anc > Cells(1500) THEN 0
    ELSE IF anc > Cells(1000) THEN 1
    ELSE IF anc > Cells(500) THEN 2
    ELSE IF anc > Cells(100) THEN 3
    ELSE 4

\* C2: whenever anc_1 is present the late grade is the grade of the band of
\* anc_1, whatever anc_2 is (absent, or any value >= anc_1).
C2_LateGradeByAnc1Band ==
    pc = "combine_grades" =>
        \A k \in DOMAIN late_grades :
           ~IsNa(late_grades[k].anc_1) =>
              late_grades[k].late_icaht_grade = LateBandGrade(late_grades[k].anc_1)

-----------------------------------------------------------------------------
(* combine_grades on the result frames of every two sets of patients; the    *)
(* early frame has a patient (prepare_data raises otherwise), the late frame  *)
(* may have none                                                              *)

\* early series that give a result without and with the special case
SampleSeries ==
    {InterpolateSeries([i \in 1..3 |-> [time_post_inf |-> i - 1, anc |-> v]], 7) :
        v \in {Cells(90), Cells(800)}}

EarlyFramesOf(S) ==
    LET ids == PatientsSorted(S)
    IN {[i \in DOMAIN ids |-> EarlyResult(ids[i], pick[ids[i]])] :
            pick \in [S -> SampleSeries]}

LateFramesOf(S) ==
    LET ids == PatientsSorted(S)
    IN {[i \in DOMAIN ids |-> LateResult(ids[i], pick[ids[i]])] :
            pick \in [S -> {<<[time_post_inf |-> 31, anc |-> Cells(90)]>>,
                            <<[time_post_inf |-> 31, anc |-> Cells(1200)],
                              [time_post_inf |-> 35, anc |-> Cells(1300)]>>}]}

InitCombine ==
    /\ pc = "combine_grades"
    /\ \E S \in (SUBSET PatientIds) \ {{}} : early_grades \in EarlyFramesOf(S)
    /\ \E S \in SUBSET PatientIds : late_grades \in LateFramesOf(S)
    /\ processed_data = [ok |-> TRUE, early |-> <<>>, late |-> <<>>]
    /\ df = [rows |-> {}, info |-> <<>>]
    /\ settings = <<>>
    /\ final_grades = [ok |-> FALSE, rows |-> <<>>]
    /\ NoCall

SpecCombine == InitCombine /\ [][CombineGrades]_vars

\* the records of a result frame for patient p
RecordsOf(frame, p) == {i \in DOMAIN frame : frame[i].patient_id = p}

\* C9: the combined output has exactly one record for each patient of the
\* union of the early and the late result set and none for any other; a
\* patient missing on a side gets that side's defaults, and the fields of a
\* side that is present are copied unchanged.
C9_CombineOneRecordPerPatient ==
    pc \in {"combined", "failed"} =>
        LET out == final_grades.rows
            union == {early_grades[i].patient_id : i \in DOMAIN early_grades}
                        \cup {late_grades[i].patient_id : i \in DOMAIN late_grades}
        IN /\ \A p \in union : Cardinality(RecordsOf(out, p)) = 1
           /\ \A i \in DOMAIN out : out[i].patient_id \in union
           /\ \A i \in DOMAIN out :
                 LET p == out[i].patient_id
                 IN /\ \A k \in RecordsOf(early_grades, p) :
                          /\ out[i].early_icaht_grade = early_grades[k].early_icaht_grade
                          /\ out[i].duration_below_500_max
                                = early_grades[k].duration_below_500_max
                          /\ out[i].duration_below_100_max
                                = early_grades[k].duration_below_100_max
                          /\ out[i].grade_4_special = early_grades[k].grade_4_special
                    /\ RecordsOf(early_grades, p) = {} =>
                          /\ out[i].early_icaht_grade = 0
                          /\ out[i].duration_below_500_max = 0
                          /\ out[i].duration_below_100_max = 0
                          /\ out[i].grade_4_special = FALSE
                    /\ \A k \in RecordsOf(late_grades, p) :
                          /\ out[i].late_icaht_grade = late_grades[k].late_icaht_grade
                          /\ out[i].anc_1 = late_grades[k].anc_1
                          /\ out[i].anc_2 = late_grades[k].anc_2
                          /\ out[i].anc_count = late_grades[k].anc_count
                    /\ RecordsOf(late_grades, p) = {} =>
                          /\ out[i].late_icaht_grade = 0
                          /\ IsNa(out[i].anc_1)
                          /\ IsNa(out[i].anc_2)
                          /\ out[i].anc_count = 0

-----------------------------------------------------------------------------
(* The whole request on the uploads of one or two patients under the default *)
(* settings: each patient has any of the observations of UploadDays and one  *)
(* of the follow-up profiles                                                 *)

\* day offset -> ANC of the observation the upload may hold on that day:
\* before the infusion, in the early window, in the late window
UploadDays == [t \in {-3, 2, 36, 40} |->
                 IF t = -3 THEN Cells(300) ELSE IF t = 2 THEN Cells(400)
                 ELSE IF t = 36 THEN Cells(1200) ELSE Cells(90)]

\* the follow-up dates of a patient: none; last follow-up on day 60; last
\* follow-up before the infusion; subsequent therapy on day 38; progression
\* on day 38
FollowUpProfiles(cart) ==
    {NoInfo(cart),
     [NoInfo(cart) EXCEPT !.last_fu_date = cart + 60],
     [NoInfo(cart) EXCEPT !.last_fu_date = cart - 2],
     [NoInfo(cart) EXCEPT !.last_fu_date = cart + 60,
                          !.subsequent_therapy_date = cart + 38],
     [NoInfo(cart) EXCEPT !.last_fu_date = cart + 60,
                          !.progression_date = cart + 38]}

\* the rows of patient p for the observed days S
PatientRows(p, cart, S) == UploadOf(p, cart, [t \in S |-> UploadDays[t]])

Init ==
    /\ pc = "prepare_data"
    /\ settings = <<>>
    /\ \E cart \in CartDates :
          \E days \in [PatientIds -> SUBSET DOMAIN UploadDays] :
              \E info \in [PatientIds -> FollowUpProfiles(cart)] :
                  /\ \E p \in PatientIds : days[p] # {}
                  /\ \A p \in PatientIds : days[p] = {} => info[p] = NoInfo(cart)
                  /\ df = [rows |-> UNION {PatientRows(p, cart, days[p]) :
                                              p \in PatientIds},
                           info |-> info]
    /\ NoResults
    /\ NoCall

Next == PrepareData \/ GradeEarly \/ GradeLate \/ CombineGrades

Spec == Init /\ [][Next]_vars

\* the patients of the upload
UploadPatients == {r.patient_id : r \in df.rows}

\* the end date of the late window as the specification defines it
LateEndDate(p) ==
    LET dates == {df.info[p].subsequent_therapy_date, df.info[p].progression_date,
                  df.info[p].last_fu_date} \ {NaN}
    IN IF dates = {} THEN df.info[p].cart_date + 100
       ELSE CHOOSE d \in dates : \A e \in dates : d <= e

\* the days of patient p in the late frame
LateDaysOf(p) ==
    IF p \in DOMAIN processed_data.late
    THEN {processed_data.late[p][i].time_post_inf :
             i \in DOMAIN processed_data.late[p]}
    ELSE {}

\* C8: an observed row is in the late series exactly when its day offset is
\* >= 31 and its date is <= the end date (the earliest of the subsequent-
\* therapy, progression and last-follow-up dates, or cart_date + 100 days when
\* all three are absent); the late series has no row for an unobserved day.
C8_LateWindowRows ==
    Prepared =>
        \A p \in UploadPatients :
           LateDaysOf(p) =
              {r.date - df.info[p].cart_date :
                  r \in {x \in df.rows : /\ x.patient_id = p
                                         /\ ~IsNa(x.date)
                                         /\ x.date - df.info[p].cart_date >= 31
                                         /\ x.date <= LateEndDate(p)}}

\* C10: when the request has run the pipeline, every patient of the upload has
\* one CombinedResult; a patient without early-window data has early grade 0
\* and zero durations, a patient without late-window data has late grade 0
\* and absent anc_1 and anc_2.
C10_EveryPatientGetsAResult ==
    pc \in {"combined", "failed"} =>
        \A p \in UploadPatients :
           /\ Cardinality(RecordsOf(final_grades.rows, p)) = 1
           /\ \A i \in RecordsOf(final_grades.rows, p) :
                 LET out == final_grades.rows[i]
                 IN /\ ObservedEarlyDays(p) = {} =>
                          /\ out.early_icaht_grade = 0
                          /\ out.duration_below_500_max = 0
                          /\ out.duration_below_100_max = 0
                    /\ LateDaysOf(p) = {} =>
                          /\ out.late_icaht_grade = 0
                          /\ IsNa(out.anc_1)
                          /\ IsNa(out.anc_2)

-----------------------------------------------------------------------------
(* Determinism of combine_grades                                            *)

-----------------------------------------------------------------------------
(* The request on the uploads of two patients with observations on the days *)
(* 0 .. MaxIsolationDays, where an observation may hold a value that the     *)
(* cast of _interpolate_anc_values rejects                                   *)

MaxIsolationDays == 1

IsolationAnc == {Cells(90), Cells(800), Inf}

InitIsolation ==
    /\ pc = "prepare_data"
    /\ settings = <<>>
    /\ \E cart \in CartDates :
          \E S1, S2 \in (SUBSET (0..MaxIsolationDays)) \ {{}} :
              \E f1 \in [S1 -> IsolationAnc], f2 \in [S2 -> IsolationAnc] :
                  df = [rows |-> UploadOf("P1", cart, f1)
                                    \cup UploadOf("P2", cart, f2),
                        info |-> [p \in PatientIds |->
                                    [NoInfo(cart) EXCEPT
                                        !.last_fu_date = cart + MaxIsolationDays]]]
    /\ NoResults
    /\ NoCall

SpecIsolation == InitIsolation /\ [][NextEarly]_vars

\* the patients whose computation fails: an observation of the early window
\* makes the cast of the patient's interpolated column raise
FailingPatients ==
    {p \in UploadPatients :
        \E r \in EarlyRows(df, EarlyDaysSetting) : r.patient_id = p /\ r.anc = Inf}

\* the upload without the rows of the patients of S
Without(d, S) == [d EXCEPT !.rows = {r \in d.rows : r.patient_id \notin S}]

\* C12: when the computation of one patient fails, the request is not
\* aborted: every other patient gets the early result it gets in a request
\* without the failing patient, and the failing patient gets the default
\* result (grade 0, zero durations, flag false). The result records of the
\* program have no data-quality field, so the flag is not stated.
C12_FailureIsolation ==
    (pc # "prepare_data" /\ Cardinality(FailingPatients) = 1) =>
        /\ pc # "failed"
        /\ pc = "grade_late_icaht" =>
              LET alone == grade_early_icaht(
                               prepare_data(Without(df, FailingPatients),
                                            settings).early)
              IN /\ \A p \in UploadPatients \ FailingPatients :
                       /\ RecordsOf(early_grades, p) # {}
                       /\ RowsOf(early_grades, p) = RowsOf(alone, p)
                 /\ \A p \in FailingPatients :
                       /\ RecordsOf(early_grades, p) # {}
                       /\ \A i \in RecordsOf(early_grades, p) :
                             /\ early_grades[i].early_icaht_grade = 0
                             /\ early_grades[i].duration_below_500_max = 0
                             /\ early_grades[i].duration_below_100_max = 0
                             /\ ~early_grades[i].grade_4_special

-----------------------------------------------------------------------------
(* prepare_data and grade_early_icaht under every settings record that       *)
(* supplies any of the recognized options, on uploads with two runs of low   *)
(* values separated by three days above both thresholds                      *)

\* a value of each recognized option that differs from its default
SuppliedSettings ==
    [early_days |-> 8, max_gap_days |-> 2, recovery_days |-> 5,
     anc_threshold_500 |-> 450, anc_threshold_100 |-> 95, late_days |-> 50]

\* `low` on days 0 and 1, 800 on days 2 to 4, 400 on days 5 and 6
SettingsUpload(cart, low) ==
    [rows |-> UploadOf("P1", cart,
                       [t \in 0..6 |-> IF t <= 1 THEN Cells(low)
                                       ELSE IF t <= 4 THEN Cells(800)
                                       ELSE Cells(400)]),
     info |-> [p \in {"P1"} |-> NoInfo(cart)]]

InitSettings ==
    /\ pc = "prepare_data"
    /\ \E K \in SUBSET DOMAIN SuppliedSettings :
          settings = [k \in K |-> SuppliedSettings[k]]
    /\ \E cart \in CartDates, low \in {98, 400, 470} :
          df = SettingsUpload(cart, low)
    /\ NoResults
    /\ NoCall

SpecSettings == InitSettings /\ [][NextEarly]_vars

\* the settings in force, as the specification defines them
RecoveryDaysSetting == Get(settings, "recovery_days", 3)

Threshold500Setting == Get(settings, "anc_threshold_500", 500)

Threshold100Setting == Get(settings, "anc_threshold_100", 100)

\* the number of merged intervals of a series when a day is inside at a
\* final ANC <= threshold and two intervals separated by fewer than `recovery`
\* days are joined
MergedCount(series, threshold, recovery) ==
    LET raw == RawExceedances(series, Cells(threshold) + 1)
    IN IF raw = <<>> THEN 0
       ELSE 1 + Cardinality({i \in 1..(Len(raw) - 1) :
                  raw[i + 1].start_day - raw[i].end_day - 1 >= recovery})

\* C13: each supplied option replaces its default: the early series ends at
\* the horizon of early_days, a filled day lies within max_gap_days of a raw
\* value, and the intervals of each result are those of the supplied
\* threshold, merged with the supplied recovery_days (with recovery_days = 5
\* two intervals separated by 3 good days are one).
C13_SettingsHonoured ==
    Graded =>
        \A k \in DOMAIN early_grades :
           LET p == early_grades[k].patient_id
               series == processed_data.early[p]
           IN /\ Len(series) = Horizon(p) + 1
              /\ \A i \in DOMAIN series :
                    (IsNa(series[i].anc) /\ ~IsNa(series[i].anc_final)) =>
                        \E j \in RawKnown(series) :
                            i - j <= MaxGapSetting /\ j - i <= MaxGapSetting
              /\ early_grades[k].exceedances_500 =
                    MergedCount(series, Threshold500Setting, RecoveryDaysSetting)
              /\ early_grades[k].exceedances_100 =
                    MergedCount(series, Threshold100Setting, RecoveryDaysSetting)

-----------------------------------------------------------------------------
(* prepare_data and grade_early_icaht on the uploads of one patient followed *)
(* up to day MaxBoundaryDays, with observations on any of the days, each an   *)
(* absent value, a value at a threshold, half a cell above it or one cell     *)
(* above it, default settings                                                 *)

MaxBoundaryDays == 2

BoundaryAnc ==
    {NaN} \cup {Cells(n) : n \in {100, 101, 500, 501}}
          \cup {Cells(100) + 1, Cells(500) + 1}

InitBoundary ==
    /\ pc = "prepare_data"
    /\ settings = <<>>
    /\ \E cart \in CartDates :
          \E S \in (SUBSET (0..MaxBoundaryDays)) \ {{}} :
              \E f \in [S -> BoundaryAnc] :
                  df = [rows |-> UploadOf("P1", cart, f),
                        info |-> [p \in {"P1"} |->
                                    [NoInfo(cart) EXCEPT
                                        !.last_fu_date = cart + MaxBoundaryDays]]]
    /\ NoResults
    /\ NoCall

SpecBoundary == InitBoundary /\ [][NextEarly]_vars

\* the raw ANC is absent on every day of the series
AllAbsent(series) == \A i \in DOMAIN series : IsNa(series[i].anc)

\* C14: a patient whose early series has an absent ANC on every day gets
\* max duration below 500 = 0, max duration below 100 = 0, special-case flag
\* false and early grade 0.
C14_AllAbsentGradesZero ==
    Graded =>
        \A k \in DOMAIN early_grades :
           AllAbsent(processed_data.early[early_grades[k].patient_id]) =>
              /\ early_grades[k].duration_below_500_max = 0
              /\ early_grades[k].duration_below_100_max = 0
              /\ early_grades[k].grade_4_special = FALSE
              /\ early_grades[k].early_icaht_grade = 0

\* C14 witness: a graded patient whose series of several days is all absent
C14_Witness ==
    /\ Graded
    /\ \E k \in DOMAIN early_grades :
          LET series == processed_data.early[early_grades[k].patient_id]
          IN /\ Len(series) > 1
             /\ AllAbsent(series)
             /\ early_grades[k].early_icaht_grade = 0

-----------------------------------------------------------------------------
(* The data-quality part of generate_summary on the early frames of one or   *)
(* two patients (series of MaxQualityRows days, interpolated with            *)
(* max_gap_days = 1) and on late frames that are empty or hold the rows of    *)
(* one patient                                                                *)

MaxQualityRows == 3

\* the early series of every choice of present and absent observations
QualitySeries ==
    {InterpolateSeries([i \in 1..MaxQualityRows |->
                           [time_post_inf |-> i - 1, anc |-> a[i]]], 1) :
        a \in [1..MaxQualityRows -> {NaN, Cells(400)}]}

QualityLateFrames ==
    {<<>>, LateFrameOf("P1", <<Cells(90)>>),
     LateFrameOf("P1", <<NaN, Cells(1200)>>)}

InitQuality ==
    /\ pc = "_assess_data_quality"
    /\ \E S \in (SUBSET PatientIds) \ {{}} :
          \E early \in [S -> QualitySeries], late \in QualityLateFrames :
              processed_data = [ok |-> TRUE, early |-> early, late |-> late]
    /\ df = [rows |-> {}, info |-> <<>>]
    /\ settings = <<>>
    /\ early_grades = <<>>
    /\ late_grades = <<>>
    /\ final_grades = [ok |-> FALSE, rows |-> <<>>]
    /\ NoCall

SpecQuality == InitQuality /\ [][AssessDataQuality]_vars

\* the rows of a phase series, and those with an absent final ANC (a row of
\* the late series has a raw ANC only, which is its final ANC)
PhaseRows(frame) ==
    {<<p, i>> \in (DOMAIN frame) \X (1..MaxSeriesLen(frame)) : i \in DOMAIN frame[p]}

AbsentFinalRows(frame) ==
    {x \in PhaseRows(frame) :
        LET row == frame[x[1]][x[2]]
        IN IF "anc_final" \in DOMAIN row THEN IsNa(row.anc_final) ELSE IsNa(row.anc)}

\* the metrics reported for a phase are those of the specification; the rate, in
\* hundredths of a percent, is 100 * absent / total to two decimals
QualityOf(reported, frame) ==
    LET total == Cardinality(PhaseRows(frame))
        absent == Cardinality(AbsentFinalRows(frame))
        diff == reported.interpolation_rate * total - 100 * 100 * absent
    IN IF total = 0
       THEN reported.patients_with_data = 0 /\ reported.interpolation_rate = 0
       ELSE /\ reported.patients_with_data = Cardinality(DOMAIN frame)
            /\ 2 * diff <= total
            /\ -2 * diff <= total

\* C15: for the early and for the late phase, a non-empty series reports
\* rate = 100 * (rows with absent final ANC) / (total rows) and
\* patients_with_data = the number of distinct patients of the series; an
\* empty series reports 0 and 0.
C15_DataQualityMetric ==
    pc \in {"returned", "failed"} =>
        /\ data_quality.ok
        /\ QualityOf(data_quality.early, processed_data.early)
        /\ QualityOf(data_quality.late, processed_data.late)

-----------------------------------------------------------------------------
(* Final ANC and rounding, on the uploads of InitEarly                      *)

\* v is a multiple of 10 nearest to num / den
NearestTen(v, num, den) ==
    /\ v % Cells(10) = 0
    /\ v * den - num <= Cells(5) * den
    /\ num - v * den <= Cells(5) * den

\* the early series of the upload with 400 on day 10 and 600 on day 15
GapExampleSeries ==
    LET cart == CHOOSE c \in CartDates : TRUE
    IN prepare_data(GapUpload(cart, 10, 4), <<>>).early["P1"]

\* C16: on every day of the early series the final ANC is the raw ANC when
\* that is present, else the interpolated value, else absent; the
\* interpolated value of a day without a raw value is the linear
\* interpolation between the two neighbouring known values, rounded to the
\* nearest multiple of 10 (400 on day 10 and 600 on day 15 give 440, 480,
\* 520, 560); every final ANC of a day without a raw value is a multiple of 10.
C16_FinalAncAndRounding ==
    Prepared =>
        /\ \A p \in DOMAIN processed_data.early :
              LET series == processed_data.early[p]
              IN \A i \in DOMAIN series :
                    /\ series[i].anc_final =
                          IF ~IsNa(series[i].anc) THEN series[i].anc
                          ELSE series[i].anc_interpolated
                    /\ (IsNa(series[i].anc) /\ ~IsNa(series[i].anc_interpolated)) =>
                          \E lo, hi \in RawKnown(series) :
                             /\ lo < i /\ i < hi
                             /\ \A j \in (lo + 1)..(hi - 1) : j \notin RawKnown(series)
                             /\ NearestTen(series[i].anc_interpolated,
                                           series[lo].anc * (hi - lo)
                                              + (series[hi].anc - series[lo].anc) * (i - lo),
                                           hi - lo)
                    /\ (IsNa(series[i].anc) /\ ~IsNa(series[i].anc_final)) =>
                          series[i].anc_final % Cells(10) = 0
        /\ [i \in 1..4 |-> GapExampleSeries[11 + i].anc_final]
              = <<Cells(440), Cells(480), Cells(520), Cells(560)>>

-----------------------------------------------------------------------------
(* prepare_data on the uploads of one patient with up to MaxSameDay          *)
(* observations on day 2 and on day 36, last follow-up on day 60, default     *)
(* settings                                                                   *)

MaxSameDay == 3

SameDayAnc == {NaN, Cells(90), Cells(400), Cells(800)}

\* the sets of ANC values observed on one day
SameDayChoices == {V \in SUBSET SameDayAnc : Cardinality(V) <= MaxSameDay}

InitSameDay ==
    /\ pc = "prepare_data"
    /\ settings = <<>>
    /\ \E cart \in CartDates :
          \E early \in SameDayChoices, late \in SameDayChoices :
              /\ early \cup late # {}
              /\ df = [rows |-> {[patient_id |-> "P1", date |-> cart + 2, anc |-> v] :
                                    v \in early}
                                \cup {[patient_id |-> "P1", date |-> cart + 36, anc |-> v] :
                                         v \in late},
                       info |-> [p \in {"P1"} |->
                                   [NoInfo(cart) EXCEPT !.last_fu_date = cart + 60]]]
    /\ NoResults
    /\ NoCall

SpecSameDay == InitSameDay /\ [][PrepareData]_vars

\* the observations of patient p on day offset t
ObservationsOn(p, t) ==
    {r \in df.rows : /\ r.patient_id = p
                     /\ ~IsNa(r.date)
                     /\ r.date - df.info[p].cart_date = t}

\* the lowest present ANC of a set of observations, absent when none is present
LowestPresent(obs) ==
    LET present == {r.anc : r \in obs} \ {NaN}
    IN IF present = {} THEN NaN
       ELSE CHOOSE v \in present : \A w \in present : v <= w

\* the rows of a series on day offset t
RowsOn(series, t) == {i \in DOMAIN series : series[i].time_post_inf = t}

\* the late series of patient p (empty when p has no row in the frame)
LateSeriesOf(p) ==
    IF p \in DOMAIN processed_data.late THEN processed_data.late[p] ELSE <<>>

\* C17: for every day of the early window up to the horizon, and for every
\* day of the late window, on which a patient has observations, the series
\* holds one row for that day, and its ANC is the minimum of the present ANC
\* values of the observations of that day.
C17_SameDayMinimum ==
    Prepared =>
        \A p \in UploadPatients :
           /\ \A t \in ObservedEarlyDays(p) :
                 t <= Horizon(p) =>
                    /\ Cardinality(RowsOn(EarlySeriesOf(p), t)) = 1
                    /\ \A i \in RowsOn(EarlySeriesOf(p), t) :
                          EarlySeriesOf(p)[i].anc = LowestPresent(ObservationsOn(p, t))
           /\ \A r \in {x \in df.rows : /\ x.patient_id = p
                                        /\ ~IsNa(x.date)
                                        /\ x.date - df.info[p].cart_date >= 31
                                        /\ x.date <= LateEndDate(p)} :
                 LET t == r.date - df.info[p].cart_date
                 IN /\ Cardinality(RowsOn(LateSeriesOf(p), t)) = 1
                    /\ \A i \in RowsOn(LateSeriesOf(p), t) :
                          LateSeriesOf(p)[i].anc = LowestPresent(ObservationsOn(p, t))

-----------------------------------------------------------------------------
(* The inputs of the late grade, on the late frames of InitLate              *)

\* the rows of a late series with a present ANC
PresentRows(rows) == {i \in DOMAIN rows : ~IsNa(rows[i].anc)}

\* v is the lowest ANC of the rows of S (absent when S is empty)
IsLowestOf(v, rows, S) ==
    IF S = {} THEN IsNa(v)
    ELSE /\ \E i \in S : v = rows[i].anc
         /\ \A i \in S : v <= rows[i].anc

\* C18: for every patient of the late series anc_1 is the lowest present ANC
\* of the patient's rows and anc_2 the lowest of the remaining ones, so
\* anc_1 <= anc_2 when both are present; anc_2 is absent with fewer than two
\* present values; with none both are absent, the count is 0 and the late
\* grade is 0.
C18_LateGradeInputs ==
    pc = "combine_grades" =>
        \A k \in DOMAIN late_grades :
           LET rows == processed_data.late[late_grades[k].patient_id]
               present == PresentRows(rows)
               res == late_grades[k]
           IN /\ res.anc_count = Cardinality(present)
              /\ IsLowestOf(res.anc_1, rows, present)
              /\ \E i \in present \cup {0} :
                    /\ i \in present => rows[i].anc = res.anc_1
                    /\ i \in present <=> present # {}
                    /\ IsLowestOf(res.anc_2, rows, present \ {i})
              /\ (~IsNa(res.anc_1) /\ ~IsNa(res.anc_2)) => res.anc_1 <= res.anc_2
              /\ Cardinality(present) < 2 => IsNa(res.anc_2)
              /\ present = {} =>
                    /\ IsNa(res.anc_1)
                    /\ IsNa(res.anc_2)
                    /\ res.anc_count = 0
                    /\ res.late_icaht_grade = 0

\* C18 witness: three present values, the lowest on the last row, the
\* second-lowest on the first
C18_Witness ==
    /\ pc = "combine_grades"
    /\ \E k \in DOMAIN late_grades :
          LET rows == processed_data.late[late_grades[k].patient_id]
          IN /\ Len(rows) = 3
             /\ PresentRows(rows) = {1, 2, 3}
             /\ rows[3].anc < rows[1].anc
             /\ rows[1].anc < rows[2].anc
             /\ late_grades[k].anc_1 = rows[3].anc
             /\ late_grades[k].anc_2 = rows[1].anc

-----------------------------------------------------------------------------
(* The detector and the rows without final ANC, on the uploads of InitEarly *)

\* the days of a series whose final ANC is present and below the threshold
\* of the detector (an exclusive limit), and those where it is present and not
BelowDays(series, threshold) ==
    {series[i].time_post_inf :
        i \in {j \in DOMAIN series : /\ ~IsNa(series[j].anc_final)
                                     /\ series[j].anc_final < threshold}}

AboveDays(series, threshold) ==
    {series[i].time_post_inf :
        i \in {j \in DOMAIN series : /\ ~IsNa(series[j].anc_final)
                                     /\ ~(series[j].anc_final < threshold)}}

\* the raw intervals of the series open and close on days with a final ANC
\* below the threshold, and two such days with no day above the threshold
\* between them lie in one raw interval, whose duration is end - start + 1
SkipsAbsentRows(series, threshold) ==
    LET raw == RawExceedances(series, threshold)
    IN /\ \A i \in DOMAIN raw :
             /\ raw[i].start_day \in BelowDays(series, threshold)
             /\ raw[i].end_day \in BelowDays(series, threshold)
             /\ raw[i].duration = raw[i].end_day - raw[i].start_day + 1
       /\ \A d1, d2 \in BelowDays(series, threshold) :
             (d1 <= d2 /\ \A d \in AboveDays(series, threshold) : d < d1 \/ d > d2)
                => \E i \in DOMAIN raw : raw[i].start_day <= d1 /\ d2 <= raw[i].end_day

\* C19: a row with absent final ANC never opens, extends or closes an
\* interval and never resets the state of the detector: two below-threshold
\* days separated only by absent days belong to one raw interval whose
\* duration counts the absent days between them, so the longest duration of
\* the result is at least the span of the two days.
C19_DetectorSkipsAbsentRows ==
    Graded =>
        \A k \in DOMAIN early_grades :
           LET series == processed_data.early[early_grades[k].patient_id]
           IN /\ SkipsAbsentRows(series, anc_500_threshold)
              /\ SkipsAbsentRows(series, anc_100_threshold)
              /\ \A d1, d2 \in BelowDays(series, anc_500_threshold) :
                    (d1 <= d2 /\ \A d \in AboveDays(series, anc_500_threshold) :
                                    d < d1 \/ d > d2)
                       => early_grades[k].duration_below_500_max >= d2 - d1 + 1

\* C19 witness: a day without final ANC between two days below 500, and no
\* other day without final ANC; the one interval spans all days of the series
C19_Witness ==
    /\ Graded
    /\ \E k \in DOMAIN early_grades :
          LET series == processed_data.early[early_grades[k].patient_id]
          IN /\ Len(series) = 5
             /\ IsNa(series[3].anc_final)
             /\ series[2].anc_final = Cells(400)
             /\ series[4].anc_final = Cells(400)
             /\ early_grades[k].exceedances_500 = 1
             /\ early_grades[k].duration_below_500_max = 5

-----------------------------------------------------------------------------
(* The comparison with the thresholds, on the uploads of InitBoundary       *)

\* row i of the series lies in a raw interval of the detector run with the
\* limit `threshold`
InsideRaw(series, i, threshold) ==
    \E e \in Range(RawExceedances(series, threshold)) :
        /\ e.start_day <= series[i].time_post_inf
        /\ series[i].time_post_inf <= e.end_day

\* the series has a day with a final ANC that is present and <= limit
HasDayAtOrBelow(series, limit) ==
    \E i \in DOMAIN series :
        ~IsNa(series[i].anc_final) /\ series[i].anc_final <= limit

\* C20: for threshold 500 and for threshold 100, a day with a present final
\* ANC is inside an exceedance exactly when its final ANC is <= the
\* threshold (500 inside, 501 outside; 100 inside, 101 outside), and a
\* result counts an exceedance exactly when the series has such a day.
C20_ThresholdInclusive ==
    Graded =>
        \A k \in DOMAIN early_grades :
           LET series == processed_data.early[early_grades[k].patient_id]
           IN /\ \A i \in DOMAIN series :
                    ~IsNa(series[i].anc_final) =>
                       /\ InsideRaw(series, i, anc_500_threshold)
                             <=> series[i].anc_final <= Cells(500)
                       /\ InsideRaw(series, i, anc_100_threshold)
                             <=> series[i].anc_final <= Cells(100)
              /\ early_grades[k].exceedances_500 > 0
                    <=> HasDayAtOrBelow(series, Cells(500))
              /\ early_grades[k].exceedances_100 > 0
                    <=> HasDayAtOrBelow(series, Cells(100))

-----------------------------------------------------------------------------
(* The intervals of the detector, on the uploads of InitBoundary            *)

\* start day <= end day, duration = end day - start day + 1, duration >= 1
WellFormed(e) ==
    /\ e.start_day <= e.end_day
    /\ e.duration = e.end_day - e.start_day + 1
    /\ e.duration >= 1

\* the days of a series whose final ANC is present and <= limit
DaysAtOrBelow(series, limit) ==
    {series[i].time_post_inf :
        i \in {j \in DOMAIN series : /\ ~IsNa(series[j].anc_final)
                                     /\ series[j].anc_final <= limit}}

\* every interval of the list is well formed and starts and ends on a day of
\* the set
IntervalsOn(exc, days) ==
    \A i \in DOMAIN exc :
        /\ WellFormed(exc[i])
        /\ exc[i].start_day \in days
        /\ exc[i].end_day \in days

\* C21: every interval of the detector, before and after the merge pass, has
\* start day <= end day, duration = end day - start day + 1 >= 1, and starts
\* and ends on a day with a present final ANC at or below the threshold
\* (500 for the detector of the 500 threshold, 100 for that of the 100
\* threshold).
C21_IntervalsWellFormed ==
    Graded =>
        \A k \in DOMAIN early_grades :
           LET series == processed_data.early[early_grades[k].patient_id]
               at500 == DaysAtOrBelow(series, Cells(500))
               at100 == DaysAtOrBelow(series, Cells(100))
           IN /\ IntervalsOn(RawExceedances(series, anc_500_threshold), at500)
              /\ IntervalsOn(_calculate_exceedances(series, anc_500_threshold),
                             at500)
              /\ IntervalsOn(RawExceedances(series, anc_100_threshold), at100)
              /\ IntervalsOn(_calculate_exceedances(series, anc_100_threshold),
                             at100)

-----------------------------------------------------------------------------
(* The days of the detector's intervals, on the uploads of InitEarly        *)

\* day d lies inside an interval of the list
Covered(exc, d) ==
    \E i \in DOMAIN exc : exc[i].start_day <= d /\ d <= exc[i].end_day

\* every day with a present final ANC <= limit lies inside an interval the
\* detector returns for `threshold`, and when the last row with a final ANC
\* is such a day, the last interval returned ends on it
NothingLost(series, threshold, limit) ==
    LET exc == _calculate_exceedances(series, threshold)
        valid_data == DropNaFinal(series)
        n == Len(valid_data)
    IN /\ \A d \in DaysAtOrBelow(series, limit) : Covered(exc, d)
       /\ (n > 0 /\ valid_data[n].anc_final <= limit) =>
             /\ exc # <<>>
             /\ exc[Len(exc)].end_day = valid_data[n].time_post_inf

\* C22: when the detector has finished a patient's series, every day with a
\* present final ANC at or below the threshold lies inside a returned
\* interval; an interval still open at the end of the series is closed on
\* the last evaluated day, which is below the threshold, and is returned.
C22_NoExceedanceLost ==
    Graded =>
        \A k \in DOMAIN early_grades :
           LET series == processed_data.early[early_grades[k].patient_id]
           IN /\ NothingLost(series, anc_500_threshold, Cells(500))
              /\ NothingLost(series, anc_100_threshold, Cells(100))
              /\ DaysAtOrBelow(series, Cells(500)) # {}
                    => early_grades[k].exceedances_500 >= 1
              /\ DaysAtOrBelow(series, Cells(100)) # {}
                    => early_grades[k].exceedances_100 >= 1

\* C22 witness: a day above 500 followed by the last day of the series, which
\* is below 500: the interval opened on the last day is returned
C22_Witness ==
    /\ Graded
    /\ \E k \in DOMAIN early_grades :
          LET series == processed_data.early[early_grades[k].patient_id]
              exc == _calculate_exceedances(series, anc_500_threshold)
          IN /\ Len(series) = 5
             /\ series[4].anc_final = Cells(800)
             /\ series[5].anc_final = Cells(400)
             /\ exc # <<>>
             /\ exc[Len(exc)].end_day = 4
             /\ early_grades[k].exceedances_500 >= 1

-----------------------------------------------------------------------------
(* The result of the merge pass, on the raw lists of InitMerge              *)

\* raw exceedances i..j are a maximal chain: every gap inside the chain is
\* below 3, the gap before it and the gap after it are not
MaximalChain(i, j) ==
    /\ i <= j
    /\ \A m \in i..(j - 1) : GapAfter(m) < 3
    /\ i = 1 \/ ~(GapAfter(i - 1) < 3)
    /\ j = Len(exceedances) \/ ~(GapAfter(j) < 3)

\* C23: the intervals the merge pass returns are in strictly increasing day
\* order and pairwise disjoint, two consecutive ones are separated by a gap
\* (start of the later - end of the earlier - 1) of at least 3 days; a chain
\* of three or more raw intervals whose successive gaps are all below 3 is
\* returned as one interval from the first start to the last end; and the
\* merge pass applied to its own output returns it unchanged.
C23_MergePassStable ==
    pc = "returned" =>
        /\ \A k \in DOMAIN joined :
              k < Len(joined) =>
                 /\ joined[k].start_day < joined[k + 1].start_day
                 /\ joined[k].end_day < joined[k + 1].start_day
                 /\ joined[k + 1].start_day - joined[k].end_day - 1 >= 3
        /\ \A i, j \in DOMAIN exceedances :
              (j >= i + 2 /\ MaximalChain(i, j)) =>
                 \E k \in DOMAIN joined :
                    joined[k] =
                       [start_day |-> exceedances[i].start_day,
                        end_day |-> exceedances[j].end_day,
                        duration |-> exceedances[j].end_day
                                        - exceedances[i].start_day + 1]
        /\ \A i, j \in DOMAIN exceedances :
              (i < j /\ \A m \in i..(j - 1) : GapAfter(m) < 3) =>
                 \E k \in DOMAIN joined :
                    /\ joined[k].start_day <= exceedances[i].start_day
                    /\ exceedances[j].end_day <= joined[k].end_day
        /\ _join_adjacent_exceedances(joined) = joined

\* C23 witness: three raw intervals with gaps of 2 and 1 days, then a gap of
\* 3 days and a fourth interval; the chain is returned as one interval
C23_Witness ==
    /\ pc = "returned"
    /\ exceedances = RunsOf({0, 3, 5, 9, 10})
    /\ joined = <<[start_day |-> 0, end_day |-> 5, duration |-> 6],
                  [start_day |-> 9, end_day |-> 10, duration |-> 2]>>

-----------------------------------------------------------------------------
(* The branch of _assign_early_grade taken in the pipeline, on the uploads  *)
(* of InitEarly                                                             *)

\* the branch of _assign_early_grade that produced result r
BranchOf(r) ==
    _assign_early_grade_branch(r.duration_below_500_max,
                               r.duration_below_100_max, r.grade_4_special)

\* C24: for the durations and the flag that grade_early_icaht computes for a
\* patient, _assign_early_grade returns from the special-case test or from
\* one of the five bands (grade 0 to grade 4), never from its final else.
C24_FallbackNeverTaken ==
    Graded =>
        \A k \in DOMAIN early_grades :
           /\ early_grades[k].duration_below_500_max >= 0
           /\ early_grades[k].duration_below_100_max >= 0
           /\ BranchOf(early_grades[k]) # "else"
           /\ BranchOf(early_grades[k]) \in
                 {"special", "band 0", "band 1", "band 2", "band 3", "band 4"}
           /\ early_grades[k].duration_below_100_max >= 1
                 => early_grades[k].duration_below_500_max >= 1
           /\ \A d500, d100 \in 0..MaxDur :
                 (d100 >= 1 => d500 >= 1) =>
                    _assign_early_grade_branch(d500, d100, FALSE) # "else"

\* C24 witness: a patient with a duration below 100 in 1..6 and the flag
\* false, the durations next to the uncovered combination
C24_Witness ==
    /\ Graded
    /\ \E k \in DOMAIN early_grades :
          /\ ~early_grades[k].grade_4_special
          /\ early_grades[k].duration_below_100_max \in 1..6
          /\ BranchOf(early_grades[k]) = "band 1"
          /\ early_grades[k].early_icaht_grade = 1

-----------------------------------------------------------------------------
(* The results of a patient and the rows of the other patients, on the      *)
(* uploads of InitIsolation                                                 *)

\* the early result records of patient p in a request for upload d: those of
\* grade_early_icaht, none when prepare_data raises
EarlyResultIn(d, p) ==
    LET prepared == prepare_data(d, settings)
    IN IF prepared.ok THEN RowsOf(grade_early_icaht(prepared.early), p)
       ELSE <<>>

\* the late result records of patient p in a request for upload d
LateResultIn(d, p) ==
    LET prepared == prepare_data(d, settings)
    IN IF prepared.ok THEN RowsOf(grade_late_icaht(prepared.late), p)
       ELSE <<>>

\* the upload with the rows of patient p only
Alone(d, p) == Without(d, {r.patient_id : r \in d.rows} \ {p})

\* C25: the early result and the late result of a patient depend on the
\* patient's own observations and the settings only: they are the results
\* the patient gets in a request whose upload holds no other patient.
C25_PerPatientIndependence ==
    pc \in {"grade_late_icaht", "failed"} =>
        \A p \in UploadPatients :
           /\ pc = "grade_late_icaht"
                 => RowsOf(early_grades, p) = EarlyResultIn(df, p)
           /\ pc = "failed" => EarlyResultIn(df, p) = <<>>
           /\ EarlyResultIn(df, p) = EarlyResultIn(Alone(df, p), p)
           /\ LateResultIn(df, p) = LateResultIn(Alone(df, p), p)

-----------------------------------------------------------------------------
(* The intervals of the two thresholds, on the uploads of InitEarly         *)

\* interval e lies inside an interval of the list
ContainedIn(e, exc) ==
    \E i \in DOMAIN exc :
        exc[i].start_day <= e.start_day /\ e.end_day <= exc[i].end_day

\* C26: for every patient, every merged interval of the 100 threshold lies
\* inside a merged interval of the 500 threshold, and the reported max
\* duration below 100 is <= the reported max duration below 500.
C26_Below100WithinBelow500 ==
    Graded =>
        \A k \in DOMAIN early_grades :
           LET series == processed_data.early[early_grades[k].patient_id]
               exceedances_500 == _calculate_exceedances(series, anc_500_threshold)
               exceedances_100 == _calculate_exceedances(series, anc_100_threshold)
           IN /\ \A i \in DOMAIN exceedances_100 :
                    ContainedIn(exceedances_100[i], exceedances_500)
              /\ early_grades[k].duration_below_100_max
                    <= early_grades[k].duration_below_500_max

\* C26 witness: a patient with two merged intervals below 100 inside one
\* longer merged interval below 500
C26_Witness ==
    /\ Graded
    /\ \E k \in DOMAIN early_grades :
          /\ early_grades[k].exceedances_100 = 2
          /\ early_grades[k].exceedances_500 = 1
          /\ early_grades[k].duration_below_100_max >= 1
          /\ early_grades[k].duration_below_100_max
                < early_grades[k].duration_below_500_max

-----------------------------------------------------------------------------
(* The order of the early grades, on the calls of InitEarlyGrade            *)

\* C27: with the special-case flag false and dur100 <= dur500, the grade of
\* (dur500, dur100) is <= the grade of every (dur500', dur100') with
\* dur500 <= dur500' and dur100 <= dur100'.
C27_EarlyGradeMonotone ==
    (pc = "returned" /\ ~grade_4_special /\ duration_100 <= duration_500) =>
        \A d500 \in duration_500..MaxDur, d100 \in duration_100..MaxDur :
            grade <= _assign_early_grade(d500, d100, FALSE)

\* C27 witness: durations 13 and 6 are graded 2, and one more day below 100
\* or below 500 gives the grade 3
C27_Witness ==
    /\ pc = "returned"
    /\ ~grade_4_special
    /\ duration_500 = 13
    /\ duration_100 = 6
    /\ grade = 2
    /\ _assign_early_grade(13, 7, FALSE) = 3
    /\ _assign_early_grade(14, 6, FALSE) = 3

-----------------------------------------------------------------------------
(* process_icaht requests for one uploaded job: MaxRequests requests, in any *)
(* interleaving, each naming the job or an unknown job and the uploaded file *)
(* or an unknown file; get_job_results and export_results at any time. The   *)
(* processed frames of the file: prepare_data raised, or an early frame of   *)
(* the sample series with a late frame that is empty or has a row.           *)

MaxRequests == 2

Requests == 1..MaxRequests

\* the file ids of the upload folder after upload_file
UploadedFiles == {"F1"}

\* what load_data and prepare_data return for the uploaded file
ProcessedFiles ==
    {[ok |-> FALSE, early |-> <<>>, late |-> <<>>]}
        \cup {[ok |-> TRUE, early |-> early, late |-> late] :
                early \in UNION {[S -> SampleSeries] :
                                    S \in (SUBSET PatientIds) \ {{}}},
                late \in {<<>>} \cup {LateFrameOf(p, <<Cells(90)>>) :
                                         p \in PatientIds}}

InitJob ==
    /\ pc = "process_icaht"
    /\ df = [rows |-> {}, info |-> <<>>]
    /\ settings = <<>>
    /\ processed_data \in ProcessedFiles
    /\ early_grades = <<>>
    /\ late_grades = <<>>
    /\ final_grades = [ok |-> FALSE, rows |-> <<>>]
    /\ duration_500 = 0
    /\ duration_100 = 0
    /\ grade_4_special = FALSE
    /\ grade = NaN
    /\ exceedances = <<>>
    /\ joined = <<>>
    /\ data_quality = <<>>
    /\ job_status = "uploaded"
    /\ patient_results = <<>>
    /\ upload_dir = UploadedFiles
    /\ requests \in [Requests ->
                        {[at |-> "start", job_id |-> j, file_id |-> f,
                          final_grades |-> <<>>, response |-> NaN] :
                            j \in Jobs \cup {2}, f \in UploadedFiles \cup {"F0"}}]
    /\ served = <<>>

NextJob ==
    \/ \E r \in Requests : StartProcessing(r)
    \/ \E r \in Requests : GradeRequest(r)
    \/ \E r \in Requests : StoreResults(r)
    \/ \E r \in Requests : FinishRequest(r)
    \/ \E r \in Requests : HandleException(r)
    \/ GetJobResults
    \/ ExportResults

SpecJob == InitJob /\ [][NextJob]_vars

\* request r has committed its results and the status 'completed'
Stored(r) ==
    /\ requests[r].at \in {"generate_summary", "except", "done"}
    /\ requests[r].final_grades # <<>>

RowsFor(job_id, p) ==
    Cardinality({i \in DOMAIN patient_results :
                    /\ patient_results[i].job_id = job_id
                    /\ patient_results[i].patient_id = p})

====
